---- MODULE Spec2Model ----
(***************************************************************************)
(* Model of ups_scraper_server.py: the Flask route get_ups_data, its       *)
(* require_api_key decorator and the clean_value normaliser.               *)
(*                                                                         *)
(* Python strings are sequences of one-character strings.  Python values   *)
(* are tagged records, so that None, an int, a float and a str are always  *)
(* distinct values.  A dict is the sequence of its items in insertion      *)
(* order.                                                                  *)
(***************************************************************************)
EXTENDS Integers, Sequences, FiniteSets, TLC

VARIABLES
    SERVER_API_KEY, \* module global, read by require_api_key
    pc,             \* where the worker is in serving the current request
    request,        \* flask.request of the request being served (or last served)
    js_content,     \* tables found in response.text of the outbound fetch
    ups_data,       \* the dict built by get_ups_data's loop
    response,       \* the HTTP response sent for the request
    clock,          \* UTC wall clock
    cur,            \* per-request record of what has run for this request
    nInbound,       \* inbound requests received so far
    nOutbound,      \* calls of requests.get so far
    nResponses,     \* HTTP responses sent so far
    nDenied,        \* requests aborted by require_api_key so far
    cv_val,         \* clean_value: argument
    cv_ret,         \* clean_value: return value
    key_in,         \* require_api_key: configured key, header and query parameter
    key_ret,        \* require_api_key: outcome
    tab_in,         \* loop body of get_ups_data: one table fragment and fmt
    tab_ret         \* loop body of get_ups_data: (section, data) or the exception

vars == <<SERVER_API_KEY, pc, request, js_content, ups_data, response, clock, cur,
          nInbound, nOutbound, nResponses, nDenied,
          cv_val, cv_ret, key_in, key_ret, tab_in, tab_ret>>

svcVars == <<SERVER_API_KEY, pc, request, js_content, ups_data, response, clock, cur,
             nInbound, nOutbound, nResponses, nDenied>>
cvVars == <<cv_val, cv_ret>>
keyVars == <<key_in, key_ret>>
tabVars == <<tab_in, tab_ret>>

(***************************************************************************)
(* Bounds                                                                  *)
(***************************************************************************)
MaxPieces == 4      \* pieces concatenated into an argument of clean_value
MaxHdrPieces == 3   \* pieces concatenated into an Authorization header
MaxRows == 3        \* rows of a table fragment given to the loop body
MaxTables == 2      \* table fragments in one device payload
MaxRequests == 2    \* inbound requests in one run
MaxClock == 1       \* clock ticks in one run

(***************************************************************************)
(* Python values                                                           *)
(***************************************************************************)
PyNone == [t |-> "None"]
PyStr(s) == [t |-> "str", s |-> s]
PyInt(n) == [t |-> "int", n |-> n]
\* the float m / 10^e, with e as small as possible
PyFloat(m, e) == [t |-> "float", m |-> m, e |-> e]
PyDict(items) == [t |-> "dict", items |-> items]
PyTime(now) == [t |-> "isotime", utc |-> now]
\* an exception propagating out of an expression
Raised(exc) == [t |-> "raise", exc |-> exc]
Pending == [t |-> "pending"]

(***************************************************************************)
(* str methods                                                             *)
(***************************************************************************)
IsSpace(c) == c = " "
IsDigit(c) == c \in {"0", "1", "2", "3", "4", "5", "6", "7", "8", "9"}

Upper == <<"B", "K", "L", "M", "N", "O", "S", "U">>
LowerOf == <<"b", "k", "l", "m", "n", "o", "s", "u">>
LowerChar(c) ==
    IF \E i \in DOMAIN Upper : Upper[i] = c
    THEN LowerOf[CHOOSE i \in DOMAIN Upper : Upper[i] = c]
    ELSE c

\* str.lower()
RECURSIVE Lower(_)
Lower(s) == IF s = <<>> THEN <<>> ELSE <<LowerChar(Head(s))>> \o Lower(Tail(s))

RECURSIVE LStrip(_)
LStrip(s) == IF s # <<>> /\ IsSpace(Head(s)) THEN LStrip(Tail(s)) ELSE s

RECURSIVE RStrip(_)
RStrip(s) ==
    IF s # <<>> /\ IsSpace(s[Len(s)]) THEN RStrip(SubSeq(s, 1, Len(s) - 1)) ELSE s

\* str.strip()
Strip(s) == RStrip(LStrip(s))

StartsAt(s, i, sub) ==
    /\ i + Len(sub) - 1 <= Len(s)
    /\ SubSeq(s, i, i + Len(sub) - 1) = sub

\* sub in s
Contains(s, sub) == \E i \in 1..(Len(s) + 1) : StartsAt(s, i, sub)

\* s.replace(old, ""): the non-overlapping occurrences of old, left to right
RECURSIVE Remove(_, _)
Remove(s, old) ==
    IF s = <<>> THEN <<>>
    ELSE IF StartsAt(s, 1, old) THEN Remove(SubSeq(s, Len(old) + 1, Len(s)), old)
    ELSE <<Head(s)>> \o Remove(Tail(s), old)

(***************************************************************************)
(* int(), float() and the regular expressions of clean_value               *)
(***************************************************************************)
DigitVal(c) ==
    CASE c = "0" -> 0 [] c = "1" -> 1 [] c = "2" -> 2 [] c = "3" -> 3
      [] c = "4" -> 4 [] c = "5" -> 5 [] c = "6" -> 6 [] c = "7" -> 7
      [] c = "8" -> 8 [] c = "9" -> 9

\* int() of a run of digits
RECURSIVE ToInt(_)
ToInt(ds) ==
    IF ds = <<>> THEN 0
    ELSE 10 * ToInt(SubSeq(ds, 1, Len(ds) - 1)) + DigitVal(ds[Len(ds)])

AllDigits(s) == \A i \in 1..Len(s) : IsDigit(s[i])

\* index of the last digit of the longest run of digits starting at p (p - 1 if none)
RECURSIVE DigitRunEnd(_, _)
DigitRunEnd(s, p) ==
    IF p <= Len(s) /\ IsDigit(s[p]) THEN DigitRunEnd(s, p + 1) ELSE p - 1

\* first index at or after p that holds no whitespace
RECURSIVE SkipSpaces(_, _)
SkipSpaces(s, p) ==
    IF p <= Len(s) /\ IsSpace(s[p]) THEN SkipSpaces(s, p + 1) ELSE p

RECURSIVE Normalise(_, _)
Normalise(m, e) ==
    IF e > 0 /\ m % 10 = 0 THEN Normalise(m \div 10, e - 1) ELSE PyFloat(m, e)

\* float(s) for s made of signs, digits, dots and other characters that are
\* none of e, E, _, and spell none of inf, nan: [sign] digits [. [digits]] or
\* [sign] . digits; anything else is a ValueError
ParseFloat(s) ==
    LET signed == s # <<>> /\ s[1] \in {"-", "+"}
        body == IF signed THEN Tail(s) ELSE s
        dots == {i \in 1..Len(body) : body[i] = "."}
        dot == IF dots = {} THEN Len(body) + 1
               ELSE CHOOSE i \in dots : \A j \in dots : i <= j
        ip == SubSeq(body, 1, dot - 1)
        fp == SubSeq(body, dot + 1, Len(body))
        mag == ToInt(ip \o fp)
    IN  IF AllDigits(ip) /\ AllDigits(fp) /\ Len(ip) + Len(fp) >= 1
        THEN Normalise(IF signed /\ s[1] = "-" THEN 0 - mag ELSE mag, Len(fp))
        ELSE Raised("ValueError")

\* r"(\d+)\s*<marker>" matched at index i
MarkerMatchAt(s, i, marker) ==
    /\ IsDigit(s[i])
    /\ StartsAt(s, SkipSpaces(s, DigitRunEnd(s, i) + 1), marker)

\* re.search(r"(\d+)\s*<marker>", s).group(1): the leftmost match; no match is
\* None, and None.group raises AttributeError
SearchGroup1(s, marker) ==
    LET hits == {i \in 1..Len(s) : MarkerMatchAt(s, i, marker)}
    IN  IF hits = {} THEN Raised("AttributeError")
        ELSE LET i == CHOOSE h \in hits : \A g \in hits : h <= g
             IN  PyStr(SubSeq(s, i, DigitRunEnd(s, i)))

\* index of the last character of the match of r"[-+]?[0-9]*\.?[0-9]+" at
\* index i, 0 when the pattern does not match there
NumeralEndAt(s, i) ==
    LET p == IF s[i] \in {"-", "+"} THEN i + 1 ELSE i
        q == DigitRunEnd(s, p) + 1
    IN  IF q + 1 <= Len(s) /\ s[q] = "." /\ IsDigit(s[q + 1])
        THEN DigitRunEnd(s, q + 1)
        ELSE IF q > p THEN q - 1 ELSE 0

\* re.search(r"[-+]?[0-9]*\.?[0-9]+", s).group()
SearchNumeral(s) ==
    LET hits == {i \in 1..Len(s) : NumeralEndAt(s, i) # 0}
    IN  IF hits = {} THEN Raised("AttributeError")
        ELSE LET i == CHOOSE h \in hits : \A g \in hits : h <= g
             IN  PyStr(SubSeq(s, i, NumeralEndAt(s, i)))

sUnknown == <<"u", "n", "k", "n", "o", "w", "n">>
sMn == <<"m", "n">>
sS == <<"s">>
sPercent == <<"%">>

\* the try block of clean_value, on the stripped and lowered val
CleanTry(val) ==
    IF Contains(val, sMn) /\ Contains(val, sS)
    THEN LET mins == SearchGroup1(val, sMn)
             secs == SearchGroup1(val, sS)
         IN  IF mins.t = "raise" THEN mins
             ELSE IF secs.t = "raise" THEN secs
             ELSE PyInt(ToInt(mins.s) * 60 + ToInt(secs.s))
    ELSE IF Contains(val, sPercent)
    THEN ParseFloat(Strip(Remove(val, sPercent)))
    ELSE LET m == SearchNumeral(val)
         IN  IF m.t = "raise" THEN m ELSE ParseFloat(m.s)

\* clean_value with rule 2 falling through to the numeral search
clean_value_fallthrough(raw) ==
    LET val == Lower(Strip(raw))
        r == CleanTry(val)
        m == SearchNumeral(val)
    IN  IF val \in {sUnknown, <<"-">>, <<>>} THEN PyNone
        ELSE IF r.t # "raise" THEN r
        ELSE IF m.t = "raise" THEN PyStr(val)
        ELSE ParseFloat(m.s)

clean_value(raw) ==
    LET val == Lower(Strip(raw))
    IN  IF val \in {sUnknown, <<"-">>, <<>>} THEN PyNone
        ELSE LET r == CleanTry(val)
             IN  IF r.t = "raise" THEN PyStr(val) ELSE r

(***************************************************************************)
(* require_api_key                                                         *)
(***************************************************************************)
sBearer == <<"B", "e", "a", "r", "e", "r", " ">>
sKey == <<"k", "1">>
sOther == <<"x">>

\* truth value of a str-or-None
Truthy(v) == v # PyNone /\ v # PyStr(<<>>)

\* request.headers.get("Authorization", "").replace("Bearer ", "")
key_from_header(req) ==
    PyStr(Remove(IF req.Authorization = PyNone THEN <<>> ELSE req.Authorization.s,
                 sBearer))

\* request.args.get("api_key")
key_from_query(req) == req.api_key

\* the condition under which decorated calls abort(401)
Aborts(api_key, req) ==
    /\ Truthy(api_key)
    /\ key_from_header(req) # api_key
    /\ key_from_query(req) # api_key

\* decorated: "abort" for abort(401), "call" for return f(*args, **kwargs)
decorated(api_key, req) == IF Aborts(api_key, req) THEN "abort" ELSE "call"

(***************************************************************************)
(* The loop of get_ups_data                                                *)
(*                                                                         *)
(* A table fragment is what BeautifulSoup finds in it: b is the text of    *)
(* its first <b> element (PyNone when it has none) and rows are its <tr>   *)
(* elements, each with its class attribute and the texts of its <td>       *)
(* elements.                                                               *)
(***************************************************************************)
sJson == <<"j", "s", "o", "n">>
sRaw == <<"r", "a", "w">>
sTimestamp == <<"t", "i", "m", "e", "s", "t", "a", "m", "p">>
sError == <<"e", "r", "r", "o", "r">>

\* request.args.get("format", "json").lower()
fmt(req) == Lower(IF req.format = PyNone THEN sJson ELSE req.format.s)

HasKey(items, k) == \E i \in 1..Len(items) : items[i].k = k

\* d[k]
DictGet(items, k) == items[CHOOSE i \in 1..Len(items) : items[i].k = k].v

\* d.setdefault(k, v): a known key keeps its value
DictSetKeepFirst(items, k, v) ==
    IF HasKey(items, k) THEN items ELSE Append(items, [k |-> k, v |-> v])

\* d[k] = v: a new key goes to the end, a known key keeps its place
DictSet(items, k, v) ==
    IF HasKey(items, k)
    THEN [i \in 1..Len(items) |-> IF items[i].k = k THEN [k |-> k, v |-> v] ELSE items[i]]
    ELSE Append(items, [k |-> k, v |-> v])

Keys(items) == [i \in 1..Len(items) |-> items[i].k]

\* clean_value(value) if fmt != "raw" else value
CellValueSwapped(f, value) == IF f # sRaw THEN clean_value(value) ELSE PyStr(value)

\* clean_value(value) if fmt == "raw" else value
CellValue(f, value) == IF f = sRaw THEN clean_value(value) ELSE PyStr(value)

\* soup.find_all("tr", class_="popupData") keeps the row, and it has two <td>
Qualifies(row) == row.class = "popupData" /\ Len(row.tds) = 2

\* the inner loop: data after the rows, starting from data
RECURSIVE RowLoop(_, _, _)
RowLoop(data, rows, f) ==
    IF rows = <<>> THEN data
    ELSE LET row == Head(rows)
         IN  RowLoop(IF Qualifies(row)
                     THEN DictSet(data, Strip(row.tds[1]), CellValue(f, Strip(row.tds[2])))
                     ELSE data,
                     Tail(rows), f)

\* one pass of the outer loop up to ups_data[section] = data:
\* soup.find("b") is None for a fragment without <b>, and None.text raises
TableItem(table_html, f) ==
    IF table_html.b = PyNone THEN Raised("AttributeError")
    ELSE [t |-> "item", section |-> Strip(table_html.b.s),
          data |-> RowLoop(<<>>, table_html.rows, f)]

\* the outer loop: ups_data after the tables, or the exception that ends it
RECURSIVE TableLoop(_, _, _)
TableLoop(data, tables_raw, f) ==
    IF tables_raw = <<>> THEN PyDict(data)
    ELSE LET item == TableItem(Head(tables_raw), f)
         IN  IF item.t = "raise" THEN item
             ELSE TableLoop(DictSet(data, item.section, PyDict(item.data)),
                            Tail(tables_raw), f)

\* {"timestamp": now, **ups_data}
Document(now, data) ==
    LET RECURSIVE Merge(_, _)
        Merge(doc, rest) ==
            IF rest = <<>> THEN doc
            ELSE Merge(DictSet(doc, Head(rest).k, Head(rest).v), Tail(rest))
    IN  Merge(<<[k |-> sTimestamp, v |-> PyTime(now)]>>, data)

(***************************************************************************)
(* Bounded inputs                                                          *)
(***************************************************************************)
RECURSIVE Concats(_, _)
\* the concatenations of at most n members of pieces
Concats(pieces, n) ==
    IF n = 0 THEN {<<>>}
    ELSE LET shorter == Concats(pieces, n - 1)
         IN  shorter \cup {s \o p : s \in shorter, p \in pieces}

RECURSIVE SeqsUpTo(_, _)
\* the sequences of at most n members of S
SeqsUpTo(S, n) ==
    IF n = 0 THEN {<<>>}
    ELSE LET shorter == SeqsUpTo(S, n - 1)
         IN  shorter \cup {Append(s, x) : s \in shorter, x \in S}

ValuePieces ==
    {<<"4">>, <<" ", "2", "2">>, <<" ", "m", "n">>, <<" ", "s">>, <<"s">>,
     <<" ">>, <<"%">>, <<"-">>, <<".", "5">>, <<"O", "n">>}

CleanInputs ==
    Concats(ValuePieces, MaxPieces)
        \cup {sUnknown, <<"U", "n", "k", "n", "o", "w", "n">>}

HeaderInputs == Concats({sBearer, sKey, <<"k">>, <<"1">>}, MaxHdrPieces)

KeyInputs ==
    [api_key : {PyNone, PyStr(<<>>), PyStr(sKey), PyStr(sBearer \o sKey)},
     Authorization : {PyNone} \cup {PyStr(h) : h \in HeaderInputs},
     query : {PyNone, PyStr(<<>>), PyStr(sKey), PyStr(sOther)}]

sA == <<"A">>
sB == <<"B">>
sBat == <<"B", "a", "t">>
sOut == <<" ", "O", "u", "t">>
sPct == <<"4", "0", " ", "%">>
sDur == <<"4", "0", " ", "m", "n", " ", "2", "2", " ", "s">>
sOn == <<"O", "n">>

Row(class, tds) == [class |-> class, tds |-> tds]

RowInputs ==
    {Row("popupData", <<l, x>>) : l \in {sA, sB}, x \in {sPct, sOn}}
        \cup {Row("other", <<sA, sDur>>), Row("popupData", <<sB>>),
              Row("popupData", <<sA, sDur, sOn>>)}

FormatInputs == {PyNone, PyStr(sJson), PyStr(sRaw), PyStr(<<"R", "A", "W">>)}

TableInputs ==
    [b : {PyNone, PyStr(sBat), PyStr(sOut)}, rows : SeqsUpTo(RowInputs, MaxRows)]

\* the fragments the device serves in the service runs
DeviceTables ==
    {[b |-> PyStr(sBat),
      rows |-> <<Row("popupData", <<sA, sPct>>), Row("popupData", <<sB, sDur>>)>>],
     [b |-> PyStr(<<" ">> \o sBat),
      rows |-> <<Row("popupData", <<sB, sOn>>), Row("other", <<sA, sOn>>)>>],
     [b |-> PyNone, rows |-> <<Row("popupData", <<sA, sPct>>)>>],
     [b |-> PyStr(sTimestamp), rows |-> <<Row("popupData", <<sA, sOn>>)>>]}

DevicePayloads == SeqsUpTo(DeviceTables, MaxTables)

\* str(e) of the exceptions requests.get raises
FetchErrors == {<<"t", "i", "m", "e", "o", "u", "t">>, <<"s", "s", "l">>}

RequestInputs ==
    [Authorization : {PyNone, PyStr(sBearer \o sKey)},
     api_key : {PyNone, PyStr(sOther)},
     format : {PyNone, PyStr(sJson), PyStr(sRaw)}]

(***************************************************************************)
(* clean_value, require_api_key and the loop body as steps of their own    *)
(***************************************************************************)
NoRequest == [Authorization |-> PyNone, api_key |-> PyNone, format |-> PyNone]
NewRequest ==
    [gate |-> "none", fetches |-> 0, fetched_at |-> 0, fetch_error |-> PyNone,
     extracted |-> FALSE, extracted_at |-> 0, responses |-> 0]

SvcIdle ==
    /\ pc = "idle"
    /\ request = NoRequest
    /\ js_content = Pending
    /\ ups_data = Pending
    /\ response = Pending
    /\ clock = 0
    /\ cur = NewRequest
    /\ nInbound = 0
    /\ nOutbound = 0
    /\ nResponses = 0
    /\ nDenied = 0

CvIdle == cv_val = <<>> /\ cv_ret = Pending
KeyIdle ==
    /\ key_in = [api_key |-> PyNone, Authorization |-> PyNone, query |-> PyNone]
    /\ key_ret = "pending"
TabIdle ==
    /\ tab_in = [table_html |-> [b |-> PyNone, rows |-> <<>>], format |-> PyNone]
    /\ tab_ret = Pending

InitClean ==
    /\ SERVER_API_KEY = PyNone
    /\ SvcIdle
    /\ KeyIdle
    /\ TabIdle
    /\ cv_val \in CleanInputs
    /\ cv_ret = Pending

CleanValue ==
    /\ cv_ret = Pending
    /\ cv_ret' = clean_value(cv_val)
    /\ UNCHANGED <<cv_val, svcVars, keyVars, tabVars>>

SpecClean == InitClean /\ [][CleanValue]_vars

InitKey ==
    /\ SERVER_API_KEY = PyNone
    /\ SvcIdle
    /\ CvIdle
    /\ TabIdle
    /\ key_in \in KeyInputs
    /\ key_ret = "pending"

RequireApiKey ==
    /\ key_ret = "pending"
    /\ key_ret' = decorated(key_in.api_key,
                            [Authorization |-> key_in.Authorization,
                             api_key |-> key_in.query, format |-> PyNone])
    /\ UNCHANGED <<key_in, svcVars, cvVars, tabVars>>

SpecKey == InitKey /\ [][RequireApiKey]_vars

InitTable ==
    /\ SERVER_API_KEY = PyNone
    /\ SvcIdle
    /\ CvIdle
    /\ KeyIdle
    /\ tab_in \in [table_html : TableInputs, format : FormatInputs]
    /\ tab_ret = Pending

ExtractTable ==
    /\ tab_ret = Pending
    /\ tab_ret' = TableItem(tab_in.table_html,
                            fmt([Authorization |-> PyNone, api_key |-> PyNone,
                                 format |-> tab_in.format]))
    /\ UNCHANGED <<tab_in, svcVars, cvVars, keyVars>>

SpecTable == InitTable /\ [][ExtractTable]_vars

(***************************************************************************)
(* The service: one worker serving GET /                                   *)
(***************************************************************************)
Init ==
    /\ SERVER_API_KEY \in {PyNone, PyStr(sKey)}
    /\ SvcIdle
    /\ CvIdle
    /\ KeyIdle
    /\ TabIdle

HttpResponse(status, body) == [status |-> status, body |-> body]

\* abort(401, description="Invalid or missing API key")
Abort401 == HttpResponse(401, "Invalid or missing API key")

\* the error put into a document that is stamped and returned
FetchErrorResponsePartial(msg) ==
    HttpResponse(500, PyDict(<<[k |-> sTimestamp, v |-> PyTime(clock)],
                               [k |-> sError, v |-> PyStr(msg)]>>))

\* jsonify({"error": str(e)}), 500
FetchErrorResponse(msg) == HttpResponse(500, PyDict(<<[k |-> sError, v |-> PyStr(msg)]>>))

\* what Flask sends for an exception that leaves the view function
UnhandledResponse == HttpResponse(500, "Internal Server Error")

\* jsonify({"timestamp": datetime.now(timezone.utc).isoformat(), **ups_data})
OkResponse(now, data) == HttpResponse(200, PyDict(Document(now, data.items)))

pureVars == <<cv_val, cv_ret, key_in, key_ret, tab_in, tab_ret>>

\* Flask dispatches an inbound GET / to the decorated view
Receive(req) ==
    /\ pc = "idle"
    /\ nInbound < MaxRequests
    /\ pc' = "gate"
    /\ request' = req
    /\ js_content' = Pending
    /\ ups_data' = Pending
    /\ response' = Pending
    /\ cur' = NewRequest
    /\ nInbound' = nInbound + 1
    /\ UNCHANGED <<SERVER_API_KEY, clock, nOutbound, nResponses, nDenied, pureVars>>

\* the view fetching before the key is checked
GateAbortAfterFetch ==
    /\ pc = "gate"
    /\ decorated(SERVER_API_KEY, request) = "abort"
    /\ pc' = "idle"
    /\ response' = Abort401
    /\ cur' = [cur EXCEPT !.gate = "deny", !.fetches = @ + 1, !.responses = @ + 1]
    /\ nResponses' = nResponses + 1
    /\ nDenied' = nDenied + 1
    /\ nOutbound' = nOutbound + 1
    /\ UNCHANGED <<SERVER_API_KEY, request, js_content, ups_data, clock, nInbound,
                   pureVars>>

\* decorated: abort(401)
GateAbort ==
    /\ pc = "gate"
    /\ decorated(SERVER_API_KEY, request) = "abort"
    /\ pc' = "idle"
    /\ response' = Abort401
    /\ cur' = [cur EXCEPT !.gate = "deny", !.responses = @ + 1]
    /\ nResponses' = nResponses + 1
    /\ nDenied' = nDenied + 1
    /\ UNCHANGED <<SERVER_API_KEY, request, js_content, ups_data, clock, nInbound,
                   nOutbound, pureVars>>

\* decorated: return f(*args, **kwargs)
GateCall ==
    /\ pc = "gate"
    /\ decorated(SERVER_API_KEY, request) = "call"
    /\ pc' = "handler"
    /\ cur' = [cur EXCEPT !.gate = "allow"]
    /\ UNCHANGED <<SERVER_API_KEY, request, js_content, ups_data, response, clock,
                   nInbound, nOutbound, nResponses, nDenied, pureVars>>

\* requests.get returns; re.findall finds the fragments of response.text
FetchOk(tables_raw) ==
    /\ pc = "handler"
    /\ pc' = "loop"
    /\ js_content' = [t |-> "text", tables_raw |-> tables_raw]
    /\ cur' = [cur EXCEPT !.fetches = @ + 1, !.fetched_at = clock]
    /\ nOutbound' = nOutbound + 1
    /\ UNCHANGED <<SERVER_API_KEY, request, ups_data, response, clock, nInbound,
                   nResponses, nDenied, pureVars>>

\* requests.get raises and is called a second time
FetchRaiseRetry(msg) ==
    /\ pc = "handler"
    /\ pc' = "idle"
    /\ response' = FetchErrorResponse(msg)
    /\ cur' = [cur EXCEPT !.fetches = @ + 2, !.fetched_at = clock,
                          !.fetch_error = PyStr(msg), !.responses = @ + 1]
    /\ nOutbound' = nOutbound + 2
    /\ nResponses' = nResponses + 1
    /\ UNCHANGED <<SERVER_API_KEY, request, js_content, ups_data, clock, nInbound,
                   nDenied, pureVars>>

\* requests.get raises: except Exception as e
FetchRaise(msg) ==
    /\ pc = "handler"
    /\ pc' = "idle"
    /\ response' = FetchErrorResponse(msg)
    /\ cur' = [cur EXCEPT !.fetches = @ + 1, !.fetched_at = clock,
                          !.fetch_error = PyStr(msg), !.responses = @ + 1]
    /\ nOutbound' = nOutbound + 1
    /\ nResponses' = nResponses + 1
    /\ UNCHANGED <<SERVER_API_KEY, request, js_content, ups_data, clock, nInbound,
                   nDenied, pureVars>>

\* the for loop runs to its end
LoopDone ==
    /\ pc = "loop"
    /\ LET r == TableLoop(<<>>, js_content.tables_raw, fmt(request))
       IN  /\ r.t # "raise"
           /\ ups_data' = r
    /\ pc' = "assemble"
    /\ cur' = [cur EXCEPT !.extracted = TRUE, !.extracted_at = clock]
    /\ UNCHANGED <<SERVER_API_KEY, request, js_content, response, clock, nInbound,
                   nOutbound, nResponses, nDenied, pureVars>>

\* the for loop is left by the AttributeError of soup.find("b").text
LoopRaise ==
    /\ pc = "loop"
    /\ TableLoop(<<>>, js_content.tables_raw, fmt(request)).t = "raise"
    /\ pc' = "idle"
    /\ response' = UnhandledResponse
    /\ cur' = [cur EXCEPT !.extracted = TRUE, !.extracted_at = clock, !.responses = @ + 1]
    /\ nResponses' = nResponses + 1
    /\ UNCHANGED <<SERVER_API_KEY, request, js_content, ups_data, clock, nInbound,
                   nOutbound, nDenied, pureVars>>

\* return jsonify({...})
Respond ==
    /\ pc = "assemble"
    /\ pc' = "idle"
    /\ response' = OkResponse(clock, ups_data)
    /\ cur' = [cur EXCEPT !.responses = @ + 1]
    /\ nResponses' = nResponses + 1
    /\ UNCHANGED <<SERVER_API_KEY, request, js_content, ups_data, clock, nInbound,
                   nOutbound, nDenied, pureVars>>

\* time passes
Tick ==
    /\ clock < MaxClock
    /\ clock' = clock + 1
    /\ UNCHANGED <<SERVER_API_KEY, pc, request, js_content, ups_data, response, cur,
                   nInbound, nOutbound, nResponses, nDenied, pureVars>>

Next ==
    \/ \E req \in RequestInputs : Receive(req)
    \/ GateAbort
    \/ GateCall
    \/ \E tables_raw \in DevicePayloads : FetchOk(tables_raw)
    \/ \E msg \in FetchErrors : FetchRaise(msg)
    \/ LoopDone
    \/ LoopRaise
    \/ Respond
    \/ Tick

Spec == Init /\ [][Next]_vars

(***************************************************************************)
(* Properties                                                              *)
(***************************************************************************)
Responded == response # Pending
IsDoc == Responded /\ response.status = 200
Body == response.body.items
Fetched == js_content # Pending
Tables == js_content.tables_raw

\* the header value without a leading "Bearer "
WithoutBearerPrefix(h) ==
    IF StartsAt(h, 1, sBearer) THEN SubSeq(h, Len(sBearer) + 1, Len(h)) ELSE h

HeaderText(h) == IF h = PyNone THEN <<>> ELSE h.s

\* C1: with no key configured every request is let through; with a key S
\* configured a request is let through iff its Authorization header without a
\* leading "Bearer " equals S or its api_key parameter equals S
C1_GateIffLeadingBearer ==
    key_ret # "pending" =>
        (key_ret = "call" <=>
            \/ ~Truthy(key_in.api_key)
            \/ PyStr(WithoutBearerPrefix(HeaderText(key_in.Authorization))) = key_in.api_key
            \/ key_in.query = key_in.api_key)

\* C2: a request whose fetch raised has exactly one response, 500 with body
\* {"error": message}; the loop did not run, the body has no timestamp and no
\* section, and requests.get was called once
C2_FetchFailureIs500 ==
    cur.fetch_error # PyNone =>
        /\ pc = "idle"
        /\ response = HttpResponse(500, PyDict(<<[k |-> sError, v |-> cur.fetch_error]>>))
        /\ cur.responses = 1
        /\ cur.fetches = 1
        /\ ~cur.extracted
        /\ ups_data = Pending
        /\ js_content = Pending

C2_Witness ==
    /\ cur.fetch_error = PyStr(<<"s", "s", "l">>)
    /\ response.status = 500
    /\ nInbound = 2
    /\ nOutbound = 2

TitleLess == {i \in 1..Len(Tables) : Tables[i].b = PyNone}

\* C3: when the payload has several fragments of which one has no <b>, the
\* response is 200 and its document has the section of every other fragment
C3_TitleLessTableSkipped ==
    (pc = "idle" /\ Responded /\ Fetched /\ Len(Tables) >= 2 /\ Cardinality(TitleLess) = 1) =>
        /\ response.status = 200
        /\ \A i \in (1..Len(Tables)) \ TitleLess : HasKey(Body, Strip(Tables[i].b.s))

\* the field of section sec comes from a qualifying row of a fragment titled sec
FromCell(sec, field, normalised) ==
    \E i \in 1..Len(Tables) :
        /\ Tables[i].b # PyNone
        /\ Strip(Tables[i].b.s) = sec
        /\ \E j \in 1..Len(Tables[i].rows) :
               LET row == Tables[i].rows[j]
               IN  /\ Qualifies(row)
                   /\ Strip(row.tds[1]) = field.k
                   /\ field.v = IF normalised THEN clean_value(Strip(row.tds[2]))
                                ELSE PyStr(Strip(row.tds[2]))

FieldsFromCells(normalised) ==
    \A s \in 1..Len(Body) :
        Body[s].v.t = "dict" =>
            \A f \in 1..Len(Body[s].v.items) :
                FromCell(Body[s].k, Body[s].v.items[f], normalised)

\* C4: with format=raw every field of every section of the document is
\* clean_value of the cell text; with format=json or no format it is the
\* cell text
C4_OutputMode ==
    IsDoc =>
        /\ request.format = PyStr(sRaw) => FieldsFromCells(TRUE)
        /\ request.format \in {PyNone, PyStr(sJson)} => FieldsFromCells(FALSE)

C4_Witness ==
    /\ IsDoc
    /\ request.format = PyStr(sRaw)
    /\ HasKey(Body, sBat)
    /\ DictGet(Body, sBat) =
           PyDict(<<[k |-> sA, v |-> PyFloat(40, 0)], [k |-> sB, v |-> PyInt(2422)]>>)

Sentinel(raw) == Lower(Strip(raw)) \in {sUnknown, <<"-">>, <<>>}
NoDigit(raw) == \A i \in 1..Len(raw) : ~IsDigit(raw[i])

\* C5: for an argument that is no sentinel and holds no number, clean_value
\* returns the argument itself, character for character (stated here for the
\* arguments get_ups_data passes, which carry no outer whitespace)
C5_PassThroughIdentity ==
    (cv_ret # Pending /\ ~Sentinel(cv_val) /\ NoDigit(cv_val) /\ Strip(cv_val) = cv_val)
        => cv_ret = PyStr(cv_val)

\* the rows of a fragment that the inner loop stores, in order
RECURSIVE QualifyingRows(_)
QualifyingRows(rows) ==
    IF rows = <<>> THEN <<>>
    ELSE (IF Qualifies(Head(rows)) THEN <<Head(rows)>> ELSE <<>>)
             \o QualifyingRows(Tail(rows))

Labels(rows) == [i \in 1..Len(rows) |-> Strip(rows[i].tds[1])]

\* the members of a sequence in the order of their first occurrence
RECURSIVE FirstOccurrences(_)
FirstOccurrences(s) ==
    IF s = <<>> THEN <<>>
    ELSE LET front == SubSeq(s, 1, Len(s) - 1)
             last == s[Len(s)]
         IN  IF \E i \in 1..Len(front) : front[i] = last
             THEN FirstOccurrences(front)
             ELSE Append(FirstOccurrences(front), last)

TabFmt == Lower(IF tab_in.format = PyNone THEN sJson ELSE tab_in.format.s)
TabRows == QualifyingRows(tab_in.table_html.rows)
Extracted(row) ==
    IF TabFmt = sRaw THEN clean_value(Strip(row.tds[2])) ELSE PyStr(Strip(row.tds[2]))

\* C6 as stated: rows labelled [A, B, A] give a section with the value of the
\* second A row and the field order [B, A]
C6_DuplicateMovesToEnd ==
    (tab_ret.t = "item" /\ Labels(TabRows) = <<sA, sB, sA>>) =>
        /\ Keys(tab_ret.data) = <<sB, sA>>
        /\ DictGet(tab_ret.data, sA) = Extracted(TabRows[3])

\* C6 amended: every label holds the value of its last qualifying row and the
\* fields are in the order of the first row of each label, so that rows
\* labelled [A, B, A] give the value of the second A row and the order [A, B]
C6_DuplicateKeepsPlace ==
    tab_ret.t = "item" =>
        /\ Keys(tab_ret.data) = FirstOccurrences(Labels(TabRows))
        /\ \A i \in 1..Len(TabRows) :
               (\A j \in (i + 1)..Len(TabRows) : Labels(TabRows)[j] # Labels(TabRows)[i])
                   => DictGet(tab_ret.data, Labels(TabRows)[i]) = Extracted(TabRows[i])
        /\ Labels(TabRows) = <<sA, sB, sA>> => Keys(tab_ret.data) = <<sA, sB>>

C6_Witness ==
    /\ tab_ret.t = "item"
    /\ Labels(TabRows) = <<sA, sB, sA>>
    /\ TabRows[1].tds[2] = sPct
    /\ TabRows[3].tds[2] = sOn
    /\ tab_ret.data = <<[k |-> sA, v |-> PyStr(sOn)], [k |-> sB, v |-> PyStr(sPct)]>>

\* C7: every 200 response has a timestamp field holding the UTC time read
\* after the fetch returned and after the loop ended
C7_TimestampAlwaysPresent ==
    IsDoc =>
        /\ HasKey(Body, sTimestamp)
        /\ DictGet(Body, sTimestamp).t = "isotime"
        /\ DictGet(Body, sTimestamp).utc >= cur.extracted_at
        /\ cur.extracted_at >= cur.fetched_at

\* C8 as stated: once every request is answered, requests.get has been called
\* once per inbound request and each request has one response
C8_OneFetchPerRequest ==
    pc = "idle" => (nOutbound = nInbound /\ nResponses = nInbound)

\* C8 amended: requests.get is called once per inbound request that
\* require_api_key lets through and never for one it aborts; each request has
\* one response, after which the worker is idle again
C8_OneFetchPerAllowedRequest ==
    /\ pc = "idle" => (nOutbound = nInbound - nDenied /\ nResponses = nInbound)
    /\ pc # "idle" => nResponses = nInbound - 1
    /\ cur.fetches <= 1
    /\ cur.responses <= 1
    /\ cur.gate = "allow" /\ pc # "handler" => cur.fetches = 1
    /\ cur.gate = "deny" => cur.fetches = 0
    /\ cur.responses = 1 => pc = "idle"

C8_Witness ==
    /\ pc = "idle"
    /\ nInbound = 2
    /\ nDenied = 1
    /\ nOutbound = 1
    /\ nResponses = 2

\* C9 as stated: with "mn" and "s" in the value but no digits before one of
\* them, the result is the first numeral of the value as a float
C9_Rule2FallsThrough ==
    LET val == Lower(Strip(cv_val))
    IN  (/\ cv_ret # Pending
         /\ ~Sentinel(cv_val)
         /\ Contains(val, sMn) /\ Contains(val, sS)
         /\ (SearchGroup1(val, sMn).t = "raise" \/ SearchGroup1(val, sS).t = "raise")
         /\ SearchNumeral(val).t # "raise")
            => cv_ret = ParseFloat(SearchNumeral(val).s)

\* C9 amended: with "mn" and "s" in the value but no digits before one of
\* them, clean_value does not raise and does not search for a numeral: it
\* returns the stripped, lower-cased value as a string
C9_Rule2PassesThrough ==
    LET val == Lower(Strip(cv_val))
    IN  (/\ cv_ret # Pending
         /\ ~Sentinel(cv_val)
         /\ Contains(val, sMn) /\ Contains(val, sS)
         /\ (SearchGroup1(val, sMn).t = "raise" \/ SearchGroup1(val, sS).t = "raise"))
            => cv_ret = PyStr(val)

C9_Witness ==
    /\ cv_val = <<"4", " ", "m", "n", " ", "s">>
    /\ cv_ret = PyStr(cv_val)

\* C10: a request that require_api_key aborts gets 401, and neither
\* requests.get nor the loop runs for it; requests.get runs only for a request
\* that require_api_key has let through
C10_GateBeforeHandler ==
    /\ cur.gate = "deny" =>
           /\ response = Abort401
           /\ cur.fetches = 0
           /\ ~cur.extracted
           /\ js_content = Pending
           /\ ups_data = Pending
    /\ (cur.fetches > 0 \/ cur.extracted \/ Fetched) =>
           /\ cur.gate = "allow"
           /\ ~Aborts(SERVER_API_KEY, request)
    /\ (nInbound > 0 /\ pc # "gate" /\ Aborts(SERVER_API_KEY, request)) =>
           /\ pc = "idle"
           /\ response.status = 401
    /\ nOutbound <= nInbound - nDenied

C10_Witness ==
    /\ cur.gate = "deny"
    /\ response.status = 401
    /\ request.api_key = PyStr(sOther)
    /\ nInbound = 2
    /\ nOutbound = 1

====
